---- MODULE Spec2Model ----
(***************************************************************************)
(* Door-access authorization subsystem of the hotel backend:               *)
(*   - RoomService (src/src/door/room.service.ts): room sharing and the    *)
(*     room-entry permission evaluator;                                    *)
(*   - AdminService (src/src/admin/admin.service.ts): HOTP/TOTP code       *)
(*     derivation and door-lock code issuance;                             *)
(*   - the actuation routes of src/src/app.ts with their guard chain.      *)
(* Three specifications share the module, one per subsystem: SpecRoom,     *)
(* SpecCode and SpecGate.                                                  *)
(***************************************************************************)
EXTENDS Integers, Sequences, FiniteSets, Bags, TLC

VARIABLES
    grants,     \* rows of the guest_reservation_room table (a bag: no uniqueness)
    roomCall,   \* the last RoomService call: its arguments and its outcome
    nowMs,      \* Date.now(): milliseconds since the Unix epoch
    codeCall,   \* the last AdminService call: its arguments and its outcome
    requests,   \* the actuation requests in flight or finished, by request id
    published,  \* the messages handed to mqttClient.publish, in order
    inflight,   \* RoomService calls that await their second lookup (a bag)
    held,       \* the encoded payload GET /door/generate last handed out
    doorCall    \* the last call of the door-code routes and its outcome

vars == <<grants, roomCall, nowMs, codeCall, requests, published, inflight,
          held, doorCall>>

roomVars == <<grants, roomCall, inflight>>
codeVars == <<nowMs, codeCall>>
gateVars == <<requests, published>>
doorVars == <<held, doorCall>>

-----------------------------------------------------------------------------
(* Bounds of the model.                                                    *)

MaxGrants == 2
MaxTicks == 3
MaxRequests == 2
MaxUnlocks == 1
TickMs == 500

-----------------------------------------------------------------------------
(* RoomService: the data it reads.                                         *)

\* Guests and their contact addresses.
GuestIDs == {"g1", "g2"}
Emails == {"e1", "e2"}
GuestEmail(guestID) == IF guestID = "g1" THEN "e1" ELSE "e2"

\* The reservations: R1 of g1 with rooms 1 and 2 on days 1..2, R2 of g2 with
\* room 3 on days 2..3. Both are active on day 2; room 3 is no room of R1.
ReservationTable ==
    { [id |-> "R1", guest_id |-> "g1", check_in |-> 1, check_out |-> 2,
       rooms |-> <<1, 2>>],
      [id |-> "R2", guest_id |-> "g2", check_in |-> 2, check_out |-> 3,
       rooms |-> <<3>>] }

ReservationIDs == {"R1", "R2", "R0"}    \* R0 names no reservation
RoomIDs == {1, 2, 3}
Dates == 1 .. 3

\* What a lookup yields when it finds no row.
undefinedReservation ==
    [id |-> "undefined", guest_id |-> "undefined", check_in |-> 0,
     check_out |-> 0, rooms |-> <<>>]
undefinedGrant == [email |-> "undefined", reservation_id |-> "undefined", room_id |-> 0]

GrantRow(email, reservationID, roomID) ==
    [email |-> email, reservation_id |-> reservationID, room_id |-> roomID]

\* roomRepository.findReservationById
findReservationById(reservationID) ==
    IF \E r \in ReservationTable : r.id = reservationID
    THEN CHOOSE r \in ReservationTable : r.id = reservationID
    ELSE undefinedReservation

\* reservationRepository.getReservation
getReservation(reservationID) == findReservationById(reservationID)

\* roomRepository.findReservationIn: the reservations the lookup can return
\* for (guestID, email, date): one the guest owns or one shared with the
\* email, with the date inside its check-in window. The lookup returns one
\* row; which one, when several match, is the data store's choice.
findReservationIn(guestID, email, date, table) ==
    LET matches ==
            { r \in ReservationTable :
                /\ r.check_in <= date
                /\ date <= r.check_out
                /\ \/ r.guest_id = guestID
                   \/ \E g \in BagToSet(table) :
                        g.email = email /\ g.reservation_id = r.id }
    IN  IF matches = {} THEN {undefinedReservation} ELSE matches

\* roomRepository.findGuestRoomReservation: the rows the lookup by
\* (email, reservationID) can return; one row, the data store's choice.
findGuestRoomReservation(email, reservationID, table) ==
    LET matches ==
            { g \in BagToSet(table) :
                g.email = email /\ g.reservation_id = reservationID }
    IN  IF matches = {} THEN {undefinedGrant} ELSE matches

\* roomRepository.createGuestRoomReservation: inserts one row.
createGuestRoomReservation(email, reservationID, roomID, table) ==
    table (+) SetToBag({GrantRow(email, reservationID, roomID)})

-----------------------------------------------------------------------------
(* RoomService: its methods. A result is a record: how the call ended      *)
(* (outcome), the error message, and the returned boolean or room list.    *)

Returned(bool, rooms) ==
    [outcome |-> "return", message |-> "", bool |-> bool, rooms |-> rooms]
Thrown(error, message) ==
    [outcome |-> error, message |-> message, bool |-> FALSE, rooms |-> <<>>]

Includes(seq, x) == \E i \in 1 .. Len(seq) : seq[i] = x

checkIsReservationOwner(guestID, reservationID) ==
    LET reservation == findReservationById(reservationID)
    IN  IF reservation = undefinedReservation
        THEN Thrown("BadRequestError", "Invalid reservation id.")
        ELSE Returned(reservation.guest_id = guestID, <<>>)

allRoomsInReservation(reservationID) ==
    getReservation(reservationID).rooms

\* roomShared reads room_id of the row found; of no row, it throws.
roomShared(shared) ==
    IF shared = undefinedGrant
    THEN Thrown("TypeError", "Cannot read property 'room_id' of undefined")
    ELSE [outcome |-> "return", message |-> "", bool |-> FALSE,
          rooms |-> <<shared.room_id>>]

\* Mutant of shareRoom: the ownership test's answer is not acted on.
shareRoom_NoOwnerCheck(ownerID, email, reservationID, roomID, table) ==
    LET isOwner == checkIsReservationOwner(ownerID, reservationID)
    IN  IF isOwner.outcome # "return"
        THEN [result |-> isOwner, table |-> table]
        ELSE [result |-> Returned(TRUE, <<roomID>>),
              table |-> createGuestRoomReservation(email, reservationID,
                                                   roomID, table)]

\* Mutant of shareRoom: a grant that already exists is not created again.
shareRoom_IfAbsent(ownerID, email, reservationID, roomID, table) ==
    LET isOwner == checkIsReservationOwner(ownerID, reservationID)
    IN  IF isOwner.outcome # "return"
        THEN [result |-> isOwner, table |-> table]
        ELSE IF ~isOwner.bool
        THEN [result |-> Thrown("ForbiddenError",
                  "Can not share room. You did not make this reservation."),
              table |-> table]
        ELSE IF BagIn(GrantRow(email, reservationID, roomID), table)
        THEN [result |-> Returned(TRUE, <<roomID>>), table |-> table]
        ELSE [result |-> Returned(TRUE, <<roomID>>),
              table |-> createGuestRoomReservation(email, reservationID,
                                                   roomID, table)]

\* shareRoom: the result of the call and the table after it.
shareRoom(ownerID, email, reservationID, roomID, table) ==
    LET isOwner == checkIsReservationOwner(ownerID, reservationID)
    IN  IF isOwner.outcome # "return"
        THEN [result |-> isOwner, table |-> table]
        ELSE IF ~isOwner.bool
        THEN [result |-> Thrown("ForbiddenError",
                  "Can not share room. You did not make this reservation."),
              table |-> table]
        ELSE [result |-> Returned(TRUE, <<roomID>>),
              table |-> createGuestRoomReservation(email, reservationID,
                                                   roomID, table)]

\* Mutant of findRoomsThatCanEnter: the test for a missing reservation is
\* left out, so the ownership lookup runs on the id of no reservation.
findRoomsThatCanEnter_NoNullCheck(guestID, email, date, reservation, shared) ==
    LET isOwner == checkIsReservationOwner(guestID, reservation.id)
    IN  IF isOwner.outcome # "return" THEN isOwner
        ELSE IF isOwner.bool
        THEN Returned(FALSE, allRoomsInReservation(reservation.id))
        ELSE roomShared(shared)

\* Mutant of findRoomsThatCanEnter: the owner is given the first room of the
\* reservation only.
findRoomsThatCanEnter_OwnerFirstRoom(guestID, email, date, reservation, shared) ==
    IF reservation = undefinedReservation
    THEN Thrown("BadRequestError", "Not checked in.")
    ELSE LET isOwner == checkIsReservationOwner(guestID, reservation.id)
         IN  IF isOwner.outcome # "return" THEN isOwner
             ELSE IF isOwner.bool
             THEN Returned(FALSE,
                      SubSeq(allRoomsInReservation(reservation.id), 1, 1))
             ELSE roomShared(shared)

\* findRoomsThatCanEnter, given the row each lookup returned.
findRoomsThatCanEnter(guestID, email, date, reservation, shared) ==
    IF reservation = undefinedReservation
    THEN Thrown("BadRequestError", "Not checked in.")
    ELSE LET isOwner == checkIsReservationOwner(guestID, reservation.id)
         IN  IF isOwner.outcome # "return" THEN isOwner
             ELSE IF isOwner.bool
             THEN Returned(FALSE, allRoomsInReservation(reservation.id))
             ELSE roomShared(shared)

\* Mutant of hasPermissionToEnterRoom: the owner's room is compared with
\* the first room of the reservation only (rooms[0] === roomID).
hasPermissionToEnterRoom_FirstRoomOnly(guestID, email, date, roomID, reservation, shared) ==
    IF reservation = undefinedReservation
    THEN Thrown("BadRequestError", "Not checked in.")
    ELSE IF reservation.guest_id = guestID
    THEN LET rooms == allRoomsInReservation(reservation.id)
         IN  Returned(rooms[1] = roomID, <<>>)
    ELSE LET room == roomShared(shared)
         IN  IF room.outcome # "return" THEN room
             ELSE Returned(room.rooms[1] = roomID, <<>>)

\* Mutant of hasPermissionToEnterRoom: a grantee is let into any room once a
\* grant is found (the comparison room === roomID is left out).
hasPermissionToEnterRoom_AnyRoomOnceShared(guestID, email, date, roomID, reservation, shared) ==
    IF reservation = undefinedReservation
    THEN Thrown("BadRequestError", "Not checked in.")
    ELSE IF reservation.guest_id = guestID
    THEN LET rooms == allRoomsInReservation(reservation.id)
         IN  Returned(Includes(rooms, roomID), <<>>)
    ELSE LET room == roomShared(shared)
         IN  IF room.outcome # "return" THEN room
             ELSE Returned(TRUE, <<>>)

\* hasPermissionToEnterRoom, given the row each lookup returned.
hasPermissionToEnterRoom(guestID, email, date, roomID, reservation, shared) ==
    IF reservation = undefinedReservation
    THEN Thrown("BadRequestError", "Not checked in.")
    ELSE IF reservation.guest_id = guestID
    THEN LET rooms == allRoomsInReservation(reservation.id)
         IN  Returned(Includes(rooms, roomID), <<>>)
    ELSE LET room == roomShared(shared)
         IN  IF room.outcome # "return" THEN room
             ELSE Returned(room.rooms[1] = roomID, <<>>)

-----------------------------------------------------------------------------
(* RoomService: the calls as actions.                                      *)

RoomCallRecord(op, guestID, email, date, roomID, reservationID, result) ==
    [op |-> op, guestID |-> guestID, email |-> email, date |-> date,
     roomID |-> roomID, reservationID |-> reservationID, result |-> result]

NoResult == Thrown("none", "")

InitRoom ==
    /\ grants = EmptyBag
    /\ inflight = EmptyBag
    /\ roomCall = RoomCallRecord("none", "none", "none", 0, 0, "none", NoResult)

ShareRoom ==
    \E ownerID \in GuestIDs, email \in Emails,
       reservationID \in ReservationIDs, roomID \in RoomIDs :
        LET done == shareRoom(ownerID, email, reservationID, roomID, grants)
        IN  /\ BagCardinality(done.table) <= MaxGrants
            /\ grants' = done.table
            /\ roomCall' = RoomCallRecord("shareRoom", ownerID, email, 0,
                                          roomID, reservationID, done.result)

FindRoomsThatCanEnter ==
    \E guestID \in GuestIDs, email \in Emails, date \in Dates :
      \E reservation \in findReservationIn(guestID, email, date, grants) :
        \E shared \in findGuestRoomReservation(email, reservation.id, grants) :
            /\ roomCall' = RoomCallRecord("findRoomsThatCanEnter", guestID,
                               email, date, 0, reservation.id,
                               findRoomsThatCanEnter(guestID, email, date,
                                                     reservation, shared))
            /\ UNCHANGED grants

HasPermissionToEnterRoom ==
    \E guestID \in GuestIDs, email \in Emails, date \in Dates,
       roomID \in RoomIDs :
      \E reservation \in findReservationIn(guestID, email, date, grants) :
        \E shared \in findGuestRoomReservation(email, reservation.id, grants) :
            /\ roomCall' = RoomCallRecord("hasPermissionToEnterRoom", guestID,
                               email, date, roomID, reservation.id,
                               hasPermissionToEnterRoom(guestID, email, date,
                                   roomID, reservation, shared))
            /\ UNCHANGED grants

NextRoom ==
    \/ ShareRoom /\ UNCHANGED <<inflight, codeVars, gateVars, doorVars>>
    \/ FindRoomsThatCanEnter /\ UNCHANGED <<inflight, codeVars, gateVars, doorVars>>
    \/ HasPermissionToEnterRoom /\ UNCHANGED <<inflight, codeVars, gateVars, doorVars>>

-----------------------------------------------------------------------------
(* Properties of RoomService, checked under SpecRoom.                      *)

IsRoomCheck == roomCall.op = "hasPermissionToEnterRoom"
Located == findReservationById(roomCall.reservationID)
RoomSet(reservation) ==
    { reservation.rooms[i] : i \in 1 .. Len(reservation.rooms) }
GrantedRooms(email, reservationID) ==
    { g.room_id : g \in { h \in BagToSet(grants) :
                            h.email = email /\ h.reservation_id = reservationID } }

\* C2: when the located reservation is owned by the caller,
\* hasPermissionToEnterRoom returns true exactly for the rooms of that
\* reservation's room set, whatever grants exist.
C2_OwnerEntersExactlyReservationRooms ==
    ( /\ IsRoomCheck
      /\ Located # undefinedReservation
      /\ Located.guest_id = roomCall.guestID )
    => /\ roomCall.result.outcome = "return"
       /\ roomCall.result.bool = (roomCall.roomID \in RoomSet(Located))

\* C2 witness: an owner was answered true for a room of the reservation
\* while the owner's own email holds a grant for another room of it.
C2_Witness ==
    /\ IsRoomCheck
    /\ Located # undefinedReservation
    /\ Located.guest_id = roomCall.guestID
    /\ roomCall.result.bool
    /\ GrantedRooms(roomCall.email, Located.id) # {}
    /\ roomCall.roomID \notin GrantedRooms(roomCall.email, Located.id)

\* C3: when the located reservation is not owned by the caller and a grant
\* exists for (email, reservation), hasPermissionToEnterRoom returns true for
\* a room shared with the email and false for every other room.
C3_GranteeEntersSharedRoomOnly ==
    ( /\ IsRoomCheck
      /\ Located # undefinedReservation
      /\ Located.guest_id # roomCall.guestID
      /\ GrantedRooms(roomCall.email, Located.id) # {} )
    => /\ roomCall.result.outcome = "return"
       /\ roomCall.result.bool =
            (roomCall.roomID \in GrantedRooms(roomCall.email, Located.id))

\* C4: shareRoom called by a guest who is not the owner of the (existing)
\* reservation fails with ForbiddenError and leaves the grants as they were.
C4_NonOwnerShareForbidden ==
    [][ ( /\ roomCall'.op = "shareRoom"
          /\ findReservationById(roomCall'.reservationID) # undefinedReservation
          /\ findReservationById(roomCall'.reservationID).guest_id
                # roomCall'.guestID )
        => ( /\ roomCall'.result.outcome = "ForbiddenError"
             /\ grants' = grants ) ]_vars

\* C4 witness: a non-owner's shareRoom was refused while grants exist.
C4_Witness ==
    /\ roomCall.op = "shareRoom"
    /\ Located # undefinedReservation
    /\ Located.guest_id # roomCall.guestID
    /\ roomCall.result.outcome = "ForbiddenError"
    /\ grants # EmptyBag

\* C5: once the owner of R has shared a room of R with an email, the
\* grantee's hasPermissionToEnterRoom for that room, on a date for which R
\* is the only reservation the lookup can return, answers true.
C5_SharedRoomIsEnterable ==
    ( /\ IsRoomCheck
      /\ GuestEmail(roomCall.guestID) = roomCall.email
      /\ \E r \in ReservationTable :
            /\ r.guest_id # roomCall.guestID
            /\ roomCall.roomID \in RoomSet(r)
            /\ BagIn(GrantRow(roomCall.email, r.id, roomCall.roomID), grants)
            /\ findReservationIn(roomCall.guestID, roomCall.email,
                                 roomCall.date, grants) = {r} )
    => /\ roomCall.result.outcome = "return"
       /\ roomCall.result.bool

\* C6: when the lookup finds no reservation covering the date for the guest
\* or the email, findRoomsThatCanEnter and hasPermissionToEnterRoom throw
\* BadRequestError('Not checked in.') and return nothing.
C6_NotCheckedIn ==
    ( /\ roomCall.op \in {"findRoomsThatCanEnter", "hasPermissionToEnterRoom"}
      /\ findReservationIn(roomCall.guestID, roomCall.email, roomCall.date,
                           grants) = {undefinedReservation} )
    => roomCall.result = Thrown("BadRequestError", "Not checked in.")

\* C6 witness: a call failed 'Not checked in.' although the email holds a
\* grant, on a reservation whose window does not cover the date.
C6_Witness ==
    /\ roomCall.op \in {"findRoomsThatCanEnter", "hasPermissionToEnterRoom"}
    /\ roomCall.result = Thrown("BadRequestError", "Not checked in.")
    /\ \E g \in BagToSet(grants) : g.email = roomCall.email

\* C16: every Room Grant refers to a room that belongs to the room set of
\* the grant's reservation.
C16_GrantRoomInReservation ==
    \A g \in BagToSet(grants) :
        g.room_id \in RoomSet(findReservationById(g.reservation_id))

\* The rooms a guest is entitled to through reservation r: all its rooms for
\* the owner, the rooms shared with the email for anyone else.
EntitledThrough(guestID, email, r) ==
    IF r.guest_id = guestID THEN RoomSet(r) ELSE GrantedRooms(email, r.id)

\* The reservations active for the call's guest, email and date.
ActiveFor(call) ==
    findReservationIn(call.guestID, call.email, call.date, grants)
        \ {undefinedReservation}

\* C19: hasPermissionToEnterRoom answers true only for a room the guest is
\* entitled to through the one reservation the lookup returned; and when the
\* guest owns one active reservation and is a grantee on another, a room
\* held through one of them only is answered true under one choice of the
\* lookup and false under the other.
C19_DecidesAgainstLocatedOnly ==
    ( /\ IsRoomCheck
      /\ Located # undefinedReservation
      /\ roomCall.result.outcome = "return" )
    => /\ roomCall.result.bool
            => roomCall.roomID
                  \in EntitledThrough(roomCall.guestID, roomCall.email, Located)
       /\ \A owned \in ActiveFor(roomCall), other \in ActiveFor(roomCall) :
            ( /\ owned.guest_id = roomCall.guestID
              /\ other.guest_id # roomCall.guestID )
            => /\ ( /\ Located = owned
                    /\ roomCall.roomID \in GrantedRooms(roomCall.email, other.id)
                    /\ roomCall.roomID \notin RoomSet(owned) )
                  => ~roomCall.result.bool
               /\ ( /\ Located = other
                    /\ roomCall.roomID \in RoomSet(owned)
                    /\ roomCall.roomID \notin GrantedRooms(roomCall.email, other.id) )
                  => ~roomCall.result.bool
               /\ roomCall.roomID \in RoomSet(owned)
                        \ GrantedRooms(roomCall.email, other.id)
                  => /\ hasPermissionToEnterRoom(roomCall.guestID,
                            roomCall.email, roomCall.date, roomCall.roomID,
                            owned, undefinedGrant).bool
                     /\ \A shared \in findGuestRoomReservation(
                                roomCall.email, other.id, grants) :
                            ~hasPermissionToEnterRoom(roomCall.guestID,
                                roomCall.email, roomCall.date, roomCall.roomID,
                                other, shared).bool

\* C19 witness: a guest who owns an active reservation and is a grantee on
\* another was answered false for a room of the reservation the guest owns,
\* because the lookup returned the other one.
C19_Witness ==
    /\ IsRoomCheck
    /\ roomCall.result.outcome = "return"
    /\ ~roomCall.result.bool
    /\ Located # undefinedReservation
    /\ Located.guest_id # roomCall.guestID
    /\ \E owned \in ActiveFor(roomCall) :
            /\ owned.guest_id = roomCall.guestID
            /\ roomCall.roomID \in RoomSet(owned)

\* The two evaluators, run on the same rows, give matching results for
\* roomID: both fail or both return, and the boolean is the membership of
\* roomID in the list.
Agree(guestID, email, date, roomID, reservation, shared) ==
    LET permitted == hasPermissionToEnterRoom(guestID, email, date, roomID,
                                              reservation, shared)
        rooms == findRoomsThatCanEnter(guestID, email, date, reservation,
                                       shared)
    IN  /\ (permitted.outcome = "return") = (rooms.outcome = "return")
        /\ permitted.outcome = "return"
            => permitted.bool = Includes(rooms.rooms, roomID)

\* The rows each lookup can hand to a call in the present state, no row
\* included.
ReservationRows(guestID, email, date) ==
    findReservationIn(guestID, email, date, grants)
        \cup {undefinedReservation}
GrantRows(email, reservationID) ==
    findGuestRoomReservation(email, reservationID, grants)
        \cup {undefinedGrant}

\* C22: hasPermissionToEnterRoom and findRoomsThatCanEnter agree on every
\* input and every state of the grants: whatever rows the lookups return,
\* hasPermissionToEnterRoom(g, e, d, r) returns true exactly when r is in the
\* list findRoomsThatCanEnter(g, e, d) returns on those rows, and one fails
\* exactly when the other fails; the answer of the call just made is the
\* one its counterpart gives.
C22_EvaluatorsAgree ==
    /\ roomCall.op \in {"hasPermissionToEnterRoom", "findRoomsThatCanEnter"}
        => \A roomID \in RoomIDs :
            \A reservation \in ReservationRows(roomCall.guestID,
                                   roomCall.email, roomCall.date) :
              \A shared \in GrantRows(roomCall.email, reservation.id) :
                Agree(roomCall.guestID, roomCall.email, roomCall.date, roomID,
                      reservation, shared)
    /\ ( /\ IsRoomCheck
         /\ roomCall.result.outcome = "return" )
        => \E shared \in GrantRows(roomCall.email, Located.id) :
            LET rooms == findRoomsThatCanEnter(roomCall.guestID,
                             roomCall.email, roomCall.date, Located, shared)
            IN  /\ rooms.outcome = "return"
                /\ roomCall.result.bool = Includes(rooms.rooms, roomCall.roomID)
    /\ ( /\ IsRoomCheck
         /\ roomCall.result.outcome # "return" )
        => \E shared \in GrantRows(roomCall.email, Located.id) :
            findRoomsThatCanEnter(roomCall.guestID, roomCall.email,
                roomCall.date, Located, shared).outcome # "return"

\* C22 witness: an owner who also holds a grant was answered true for a room
\* of the reservation other than its first, which the list on the same rows
\* contains.
C22_Witness ==
    /\ IsRoomCheck
    /\ roomCall.result.outcome = "return"
    /\ roomCall.result.bool
    /\ Located.guest_id = roomCall.guestID
    /\ Len(Located.rooms) > 1
    /\ roomCall.roomID # Located.rooms[1]
    /\ \E g \in BagToSet(grants) : g.email = roomCall.email
    /\ \A shared \in GrantRows(roomCall.email, Located.id) :
            Includes(findRoomsThatCanEnter(roomCall.guestID, roomCall.email,
                         roomCall.date, Located, shared).rooms,
                     roomCall.roomID)

-----------------------------------------------------------------------------
(* RoomService under concurrent requests. Each method awaits its lookups   *)
(* one after the other, and other requests run between two awaits. A call  *)
(* that is past its first await and has not returned is in flight.         *)

MaxInFlight == 2

\* The arguments the concurrent calls are made with.
SharedEmails == {"e2"}
SharedReservations == {"R1"}
SharedRooms == {1, 2}
SharedDates == {1}
Evaluations == {"findRoomsThatCanEnter", "hasPermissionToEnterRoom"}

\* A call in flight: a shareRoom that passed the ownership check, or an
\* evaluation that located a reservation (reservationID) the caller does
\* not own.
InFlightCall(op, guestID, email, date, roomID, reservationID) ==
    [op |-> op, guestID |-> guestID, email |-> email, date |-> date,
     roomID |-> roomID, reservationID |-> reservationID]

\* The method an evaluation runs, given the row each lookup returned.
Evaluate(op, guestID, email, date, roomID, reservation, shared) ==
    IF op = "hasPermissionToEnterRoom"
    THEN hasPermissionToEnterRoom(guestID, email, date, roomID, reservation,
                                  shared)
    ELSE findRoomsThatCanEnter(guestID, email, date, reservation, shared)

\* shareRoom up to the end of `await this.checkIsReservationOwner(...)`: a
\* call the check refuses returns its error, another one goes on.
ShareRoomCheckOwner ==
    \E ownerID \in GuestIDs, email \in SharedEmails,
       reservationID \in SharedReservations, roomID \in SharedRooms :
        LET done == shareRoom(ownerID, email, reservationID, roomID, grants)
        IN  /\ BagCardinality(inflight) < MaxInFlight
            /\ IF done.result.outcome = "return"
               THEN /\ inflight' = inflight (+) SetToBag({
                            InFlightCall("shareRoom", ownerID, email, 0,
                                         roomID, reservationID) })
                    /\ UNCHANGED roomCall
               ELSE /\ roomCall' = RoomCallRecord("shareRoom", ownerID, email,
                                        0, roomID, reservationID, done.result)
                    /\ UNCHANGED inflight
            /\ UNCHANGED grants

\* shareRoom from there: createGuestRoomReservation on the table as it is
\* now, and the return.
ShareRoomCreateGrant ==
    \E call \in BagToSet(inflight) :
        LET done == shareRoom(call.guestID, call.email, call.reservationID,
                              call.roomID, grants)
        IN  /\ call.op = "shareRoom"
            /\ BagCardinality(done.table) <= MaxGrants
            /\ grants' = done.table
            /\ inflight' = inflight (-) SetToBag({call})
            /\ roomCall' = RoomCallRecord("shareRoom", call.guestID,
                               call.email, 0, call.roomID, call.reservationID,
                               done.result)

\* An evaluation up to the end of `await findReservationIn(...)` and the
\* ownership test: with no reservation, or with one the caller owns, it
\* returns without reading the grants; otherwise it goes on to roomShared.
EvaluateLocate ==
    \E op \in Evaluations, guestID \in GuestIDs, email \in SharedEmails,
       date \in SharedDates, roomID \in SharedRooms :
      \E reservation \in findReservationIn(guestID, email, date, grants) :
        /\ BagCardinality(inflight) < MaxInFlight
        /\ IF reservation = undefinedReservation
              \/ reservation.guest_id = guestID
           THEN /\ roomCall' = RoomCallRecord(op, guestID, email, date,
                        IF op = "hasPermissionToEnterRoom" THEN roomID ELSE 0,
                        reservation.id,
                        Evaluate(op, guestID, email, date, roomID, reservation,
                                 undefinedGrant))
                /\ UNCHANGED inflight
           ELSE /\ inflight' = inflight (+) SetToBag({
                        InFlightCall(op, guestID, email, date,
                            IF op = "hasPermissionToEnterRoom" THEN roomID ELSE 0,
                            reservation.id) })
                /\ UNCHANGED roomCall
        /\ UNCHANGED grants

\* The evaluation from there: roomShared reads the grant by (email,
\* reservation) from the table as it is now, and the method returns.
EvaluateRoomShared ==
    \E call \in BagToSet(inflight) :
      \E shared \in findGuestRoomReservation(call.email, call.reservationID,
                                             grants) :
        /\ call.op \in Evaluations
        /\ roomCall' = RoomCallRecord(call.op, call.guestID, call.email,
                           call.date, call.roomID, call.reservationID,
                           Evaluate(call.op, call.guestID, call.email,
                               call.date, call.roomID,
                               findReservationById(call.reservationID), shared))
        /\ inflight' = inflight (-) SetToBag({call})
        /\ UNCHANGED grants

\* The data layer takes a grant away (a revocation, or a change of the
\* reservation's room set).
RemoveGrant ==
    \E g \in BagToSet(grants) :
        /\ grants' = grants (-) SetToBag({g})
        /\ UNCHANGED <<roomCall, inflight>>

NextShare ==
    \/ ShareRoomCheckOwner /\ UNCHANGED <<codeVars, gateVars, doorVars>>
    \/ ShareRoomCreateGrant /\ UNCHANGED <<codeVars, gateVars, doorVars>>
    \/ EvaluateLocate /\ UNCHANGED <<codeVars, gateVars, doorVars>>
    \/ EvaluateRoomShared /\ UNCHANGED <<codeVars, gateVars, doorVars>>
    \/ RemoveGrant /\ UNCHANGED <<codeVars, gateVars, doorVars>>

-----------------------------------------------------------------------------
(* Properties of RoomService under concurrent requests (SpecShare).        *)

\* The step is the return of a call that was in flight.
Returns(ops) ==
    /\ BagCardinality(inflight') < BagCardinality(inflight)
    /\ roomCall'.op \in ops

\* C17: an evaluation that located a reservation its caller does not own,
\* and finds no grant for (email, reservation) when it reads the grants,
\* fails with ForbiddenError.
C17_NoGrantIsForbidden ==
    [][ ( /\ Returns(Evaluations)
          /\ findReservationById(roomCall'.reservationID).guest_id
                # roomCall'.guestID
          /\ findGuestRoomReservation(roomCall'.email,
                  roomCall'.reservationID, grants) = {undefinedGrant} )
        => roomCall'.result.outcome = "ForbiddenError" ]_vars

\* C18: every shareRoom in flight has passed the ownership check, whatever
\* identical calls are in flight with it; a shareRoom by the owner of the
\* reservation is never refused; and the return of each one adds one more
\* copy of its grant to the table, also when the table holds that grant.
C18_ConcurrentSharesBothCreate ==
    [][ /\ \A call \in BagToSet(inflight') :
              call.op = "shareRoom"
              => findReservationById(call.reservationID).guest_id = call.guestID
        /\ ( /\ roomCall'.op = "shareRoom"
             /\ findReservationById(roomCall'.reservationID).guest_id
                   = roomCall'.guestID )
           => roomCall'.result.outcome = "return"
        /\ Returns({"shareRoom"})
           => CopiesIn(GrantRow(roomCall'.email, roomCall'.reservationID,
                                roomCall'.roomID), grants')
                = CopiesIn(GrantRow(roomCall'.email, roomCall'.reservationID,
                                    roomCall'.roomID), grants) + 1 ]_vars

\* C18 witness: the table holds two identical grants, the second one just
\* created, while one more identical shareRoom is past its ownership check.
C18_Witness ==
    /\ roomCall.op = "shareRoom"
    /\ roomCall.result.outcome = "return"
    /\ CopiesIn(GrantRow(roomCall.email, roomCall.reservationID,
                         roomCall.roomID), grants) = 2
    /\ BagIn(InFlightCall("shareRoom", roomCall.guestID, roomCall.email, 0,
                          roomCall.roomID, roomCall.reservationID), inflight)

-----------------------------------------------------------------------------
(* AdminService: numbers and strings as the code's runtime computes them.  *)
(* A string is a sequence of one-character strings; a Buffer is a          *)
(* sequence of bytes. Bitwise operators work on 32-bit signed integers.    *)

\* a & b for a 32-bit signed a and a non-negative b.
RECURSIVE BitAnd(_, _)
BitAnd(a, b) ==
    IF b = 0 THEN 0
    ELSE (a % 2) * (b % 2) + 2 * BitAnd(a \div 2, b \div 2)

\* a | b for a 32-bit signed a and a non-negative b.
BitOr(a, b) == a + b - BitAnd(a, b)

\* x << n for n in 8 .. 24: the low 32 - n bits of x move up, and the bit
\* that lands on position 31 is the sign.
ShiftLeft(x, n) ==
    LET m == 2 ^ (32 - n)
        low == x % m
    IN  IF 2 * low >= m THEN (low - m) * (2 ^ n) ELSE low * (2 ^ n)

\* a >> 8: the arithmetic shift.
ShiftRight8(a) == a \div 256

\* a % n of the runtime: the remainder takes the sign of the dividend.
Remainder(a, n) ==
    LET r == a % n
    IN  IF a < 0 /\ r # 0 THEN r - n ELSE r

Digits == <<"0", "1", "2", "3", "4", "5", "6", "7", "8", "9">>

\* Number.prototype.toString
RECURSIVE NatToString(_)
NatToString(n) ==
    IF n < 10 THEN <<Digits[n + 1]>>
    ELSE NatToString(n \div 10) \o <<Digits[(n % 10) + 1]>>
toString(n) == IF n < 0 THEN <<"-">> \o NatToString(0 - n) ELSE NatToString(n)

\* String.prototype.padStart
RECURSIVE padStart(_, _, _)
padStart(str, targetLength, padString) ==
    IF Len(str) >= targetLength THEN str
    ELSE padStart(<<padString>> \o str, targetLength, padString)

Base64Alphabet ==
    << "A", "B", "C", "D", "E", "F", "G", "H", "I", "J", "K", "L", "M",
       "N", "O", "P", "Q", "R", "S", "T", "U", "V", "W", "X", "Y", "Z",
       "a", "b", "c", "d", "e", "f", "g", "h", "i", "j", "k", "l", "m",
       "n", "o", "p", "q", "r", "s", "t", "u", "v", "w", "x", "y", "z",
       "0", "1", "2", "3", "4", "5", "6", "7", "8", "9", "+", "/" >>

IsBase64Char(c) ==
    \/ \E i \in 1 .. Len(Base64Alphabet) : Base64Alphabet[i] = c
    \/ c \in {"-", "_"}

Sextet(c) ==
    IF c = "-" THEN 62
    ELSE IF c = "_" THEN 63
    ELSE (CHOOSE i \in 1 .. Len(Base64Alphabet) : Base64Alphabet[i] = c) - 1

\* Buffer.from(secret, 'base64'): the characters of the alphabet give six
\* bits each, other characters are skipped, and every full group of eight
\* bits gives a byte. acc holds the bits read and not yet written.
RECURSIVE DecodeFrom(_, _, _)
DecodeFrom(chars, acc, bits) ==
    IF chars = <<>> THEN <<>>
    ELSE IF ~IsBase64Char(Head(chars)) THEN DecodeFrom(Tail(chars), acc, bits)
    ELSE IF bits + 6 >= 8
    THEN <<(acc * 64 + Sextet(Head(chars))) \div (2 ^ (bits - 2))>>
            \o DecodeFrom(Tail(chars),
                          (acc * 64 + Sextet(Head(chars))) % (2 ^ (bits - 2)),
                          bits - 2)
    ELSE DecodeFrom(Tail(chars), acc * 64 + Sextet(Head(chars)), bits + 6)

Base64Decode(secret) == DecodeFrom(secret, 0, 0)

\* crypto.createHmac('sha1', key).update(message).digest(): the library's
\* HMAC-SHA1, a fixed function of key and message to 20 bytes. The model
\* keeps that much of it: a fixed function that reads every byte of both
\* (an inner pass over key and message, an outer pass over key and the
\* inner result).
RECURSIVE Absorb(_, _)
Absorb(bytes, h) ==
    IF bytes = <<>> THEN h
    ELSE Absorb(Tail(bytes), (h * 257 + Head(bytes) + 1) % 65521)

Squeeze(h) == (((h % 4093) * (h % 4093) + h) \div 8) % 256

HmacByte(key, message, i) ==
    Squeeze(Absorb(<<Absorb(message, Absorb(key, 5381 + i)) % 256,
                     Absorb(message, Absorb(key, 5381 + i)) \div 256>>,
                   Absorb(key, 17 * i)))

HmacSha1(key, message) ==
    << HmacByte(key, message, 1), HmacByte(key, message, 2),
       HmacByte(key, message, 3), HmacByte(key, message, 4),
       HmacByte(key, message, 5), HmacByte(key, message, 6),
       HmacByte(key, message, 7), HmacByte(key, message, 8),
       HmacByte(key, message, 9), HmacByte(key, message, 10),
       HmacByte(key, message, 11), HmacByte(key, message, 12),
       HmacByte(key, message, 13), HmacByte(key, message, 14),
       HmacByte(key, message, 15), HmacByte(key, message, 16),
       HmacByte(key, message, 17), HmacByte(key, message, 18),
       HmacByte(key, message, 19), HmacByte(key, message, 20) >>

-----------------------------------------------------------------------------
(* AdminService: code derivation and issuance.                             *)

\* Mutant of dynamicTruncationFn: the first byte keeps its top bit
\* (& 0xff for & 0x7f).
dynamicTruncationFn_KeepTopBit(hmacValue) ==
    LET offset == BitAnd(hmacValue[Len(hmacValue)], 15)
    IN  BitOr(BitOr(BitOr(
            ShiftLeft(BitAnd(hmacValue[offset + 1], 255), 24),
            ShiftLeft(BitAnd(hmacValue[offset + 2], 255), 16)),
            ShiftLeft(BitAnd(hmacValue[offset + 3], 255), 8)),
            BitAnd(hmacValue[offset + 4], 255))

\* hmacValue[k] of the code is hmacValue[k + 1] here: sequences start at 1.
dynamicTruncationFn(hmacValue) ==
    LET offset == BitAnd(hmacValue[Len(hmacValue)], 15)
    IN  BitOr(BitOr(BitOr(
            ShiftLeft(BitAnd(hmacValue[offset + 1], 127), 24),
            ShiftLeft(BitAnd(hmacValue[offset + 2], 255), 16)),
            ShiftLeft(BitAnd(hmacValue[offset + 3], 255), 8)),
            BitAnd(hmacValue[offset + 4], 255))

\* The loop of generateHOTP that fills the 8-byte buffer from its last byte
\* to its first: round i writes buffer[7 - i] and shifts counter. written
\* holds the bytes buffer[8 - i .. 7] written so far.
RECURSIVE FillBuffer(_, _, _)
FillBuffer(written, counter, i) ==
    IF i = 8 THEN written
    ELSE FillBuffer(<<BitAnd(counter, 255)>> \o written,
                    ShiftRight8(counter), i + 1)

CounterBuffer(counter) == FillBuffer(<<>>, counter, 0)

\* The singleton sets make each intermediate value (the decoded secret, the
\* buffer, the digest) be computed once and then used by the next step.
generateHOTP(secret, counter) ==
    CHOOSE result \in
        { Remainder(dynamicTruncationFn(hmacResult), 10 ^ 6) :
            hmacResult \in
                { HmacSha1(decodedSecret, buffer) :
                    decodedSecret \in {Base64Decode(secret)},
                    buffer \in {CounterBuffer(counter)} } } : TRUE

\* Mutant of generateTOTP: the window is not added to the counter.
generateTOTP_NoWindow(secret, window, dateNow) ==
    LET counter == dateNow \div 1000
    IN  generateHOTP(secret, counter)

\* generateTOTP, with Date.now() as its third argument.
generateTOTP(secret, window, dateNow) ==
    LET counter == dateNow \div 1000
    IN  generateHOTP(secret, counter + window)

\* adminRepository.findStaffById over the staff table.
StaffTable == { <<"s", "1">>, <<"7", "Q">> }
StaffIDs == StaffTable \cup { <<"z", "z">> }
findStaffById(id) == IF id \in StaffTable THEN <<id>> ELSE <<>>

dummyRoomID == <<"9", "9", "9", "9">>
dummyStaffNationalID ==
    <<"1", "2", "3", "4", "5", "6", "7", "8", "9", "0", "1", "2", "3">>

NoPayload == [userID |-> <<>>, roomID |-> <<>>, nationalID |-> <<>>, secret |-> <<>>]

CodeResult(outcome, message, value, payload, derived) ==
    [outcome |-> outcome, message |-> message, value |-> value,
     payload |-> payload, derived |-> derived]

\* Mutant of getDoorLockInput: the code is not padded to six characters.
getDoorLockInput_NoPad(staffID, dateNow) ==
    LET staff == findStaffById(staffID)
    IN  IF staff = <<>>
        THEN CodeResult("BadRequestError",
                        "Request failed. Staff ID is invalid.", 0, NoPayload, 0)
        ELSE LET secret == toString(generateTOTP(
                      staffID \o dummyRoomID \o dummyStaffNationalID,
                      300, dateNow))
             IN  CodeResult("return", "", 0,
                     [userID |-> staffID, roomID |-> dummyRoomID,
                      nationalID |-> dummyStaffNationalID,
                      secret |-> secret], 1)

\* Mutant of getDoorLockInput: the staff lookup's result is not tested.
getDoorLockInput_NoStaffCheck(staffID, dateNow) ==
    LET secret == toString(generateTOTP(
                      staffID \o dummyRoomID \o dummyStaffNationalID,
                      300, dateNow))
    IN  CodeResult("return", "", 0,
            [userID |-> staffID, roomID |-> dummyRoomID,
             nationalID |-> dummyStaffNationalID,
             secret |-> padStart(secret, 6, "0")], 1)

\* Mutant of getDoorLockInput: the code is derived for the present window
\* (window 0 for 300).
getDoorLockInput_PresentWindow(staffID, dateNow) ==
    LET staff == findStaffById(staffID)
    IN  IF staff = <<>>
        THEN CodeResult("BadRequestError",
                        "Request failed. Staff ID is invalid.", 0, NoPayload, 0)
        ELSE LET secret == toString(generateTOTP(
                      staffID \o dummyRoomID \o dummyStaffNationalID,
                      0, dateNow))
             IN  CodeResult("return", "", 0,
                     [userID |-> staffID, roomID |-> dummyRoomID,
                      nationalID |-> dummyStaffNationalID,
                      secret |-> padStart(secret, 6, "0")], 1)

\* getDoorLockInput, with Date.now() as its second argument. derived counts
\* the calls of generateTOTP it made.
getDoorLockInput(staffID, dateNow) ==
    LET staff == findStaffById(staffID)
    IN  IF staff = <<>>
        THEN CodeResult("BadRequestError",
                        "Request failed. Staff ID is invalid.", 0, NoPayload, 0)
        ELSE LET secret == toString(generateTOTP(
                      staffID \o dummyRoomID \o dummyStaffNationalID,
                      300, dateNow))
             IN  CodeResult("return", "", 0,
                     [userID |-> staffID, roomID |-> dummyRoomID,
                      nationalID |-> dummyStaffNationalID,
                      secret |-> padStart(secret, 6, "0")], 1)

-----------------------------------------------------------------------------
(* AdminService: the calls as actions, and the clock.                      *)

Secrets ==
    { id \o dummyRoomID \o dummyStaffNationalID : id \in StaffTable }
        \cup { <<"a", "b", "-", "=">> }
Counters == {0, 255, 256, 1600000000, 2147483647}
Windows == {0, 1, 300}
EpochStarts == {0, 2147000000}
SampleDigests ==
    { [i \in 1 .. 20 |-> b] : b \in {0, 127, 128, 255} }
        \cup { [i \in 1 .. 20 |-> IF i = 20 THEN 0 ELSE 255] }

CodeCallRecord(op, secret, number, dateNow, result) ==
    [op |-> op, secret |-> secret, number |-> number, dateNow |-> dateNow,
     result |-> result]

NoCodeCall == CodeCallRecord("none", <<>>, 0, 0,
                             CodeResult("none", "", 0, NoPayload, 0))

InitCode ==
    /\ nowMs \in EpochStarts
    /\ codeCall = NoCodeCall

\* Time passes.
Tick ==
    /\ \E start \in EpochStarts :
          /\ start <= nowMs
          /\ nowMs - start < MaxTicks * TickMs
    /\ nowMs' = nowMs + TickMs
    /\ UNCHANGED codeCall

DynamicTruncationFn ==
    \E hmacValue \in SampleDigests :
        /\ codeCall' = CodeCallRecord("dynamicTruncationFn", hmacValue, 0, 0,
                CodeResult("return", "", dynamicTruncationFn(hmacValue),
                           NoPayload, 0))
        /\ UNCHANGED nowMs

GenerateHOTP ==
    \E secret \in Secrets, counter \in Counters :
        /\ codeCall' = CodeCallRecord("generateHOTP", secret, counter, 0,
                CodeResult("return", "", generateHOTP(secret, counter),
                           NoPayload, 0))
        /\ UNCHANGED nowMs

GenerateTOTP ==
    \E secret \in Secrets, window \in Windows :
        /\ codeCall' = CodeCallRecord("generateTOTP", secret, window, nowMs,
                CodeResult("return", "", generateTOTP(secret, window, nowMs),
                           NoPayload, 0))
        /\ UNCHANGED nowMs

GetDoorLockInput ==
    \E staffID \in StaffIDs :
        /\ codeCall' = CodeCallRecord("getDoorLockInput", staffID, 0, nowMs,
                                      getDoorLockInput(staffID, nowMs))
        /\ UNCHANGED nowMs

NextCode ==
    \/ Tick /\ UNCHANGED <<roomVars, gateVars, doorVars>>
    \/ DynamicTruncationFn /\ UNCHANGED <<roomVars, gateVars, doorVars>>
    \/ GenerateHOTP /\ UNCHANGED <<roomVars, gateVars, doorVars>>
    \/ GenerateTOTP /\ UNCHANGED <<roomVars, gateVars, doorVars>>
    \/ GetDoorLockInput /\ UNCHANGED <<roomVars, gateVars, doorVars>>

-----------------------------------------------------------------------------

(* Properties of AdminService, checked under SpecCode.                     *)

IsDigit(c) == \E i \in 1 .. Len(Digits) : Digits[i] = c

\* The number a string of decimal digits denotes.
RECURSIVE DecimalValue(_)
DecimalValue(str) ==
    IF str = <<>> THEN 0
    ELSE 10 * DecimalValue(SubSeq(str, 1, Len(str) - 1))
            + (CHOOSE d \in 0 .. 9 : Digits[d + 1] = str[Len(str)])

UnixSeconds(dateNow) == dateNow \div 1000

\* Clock readings within the second of dateNow.
SameSecond(dateNow) ==
    { UnixSeconds(dateNow) * 1000 + ms : ms \in {0, 1, 500, 999} }

\* C7: generateHOTP gives an integer in [0, 999999], and computing it again
\* from the same (secret, counter) gives the same value.
C7_HotpInRange ==
    codeCall.op = "generateHOTP"
    => /\ codeCall.result.value \in 0 .. 999999
       /\ codeCall.result.value = generateHOTP(codeCall.secret, codeCall.number)

\* C7 witness: a generateHOTP call whose digest has the top bit set in the
\* first byte the truncation reads.
C7_Witness ==
    /\ codeCall.op = "generateHOTP"
    /\ codeCall.result.value \in 0 .. 999999
    /\ \E h \in { HmacSha1(Base64Decode(codeCall.secret),
                           CounterBuffer(codeCall.number)) } :
            h[(h[20] % 16) + 1] >= 128

\* C8: for an existing staff ID s, getDoorLockInput(s) at Unix second t
\* returns (s, '9999', '1234567890123') and a code of exactly six decimal
\* characters that denotes generateHOTP(s + '9999' + '1234567890123', t + 300).
C8_IssuedCode ==
    ( /\ codeCall.op = "getDoorLockInput"
      /\ codeCall.secret \in StaffTable )
    => /\ codeCall.result.outcome = "return"
       /\ codeCall.result.payload.userID = codeCall.secret
       /\ codeCall.result.payload.roomID = <<"9", "9", "9", "9">>
       /\ codeCall.result.payload.nationalID =
            <<"1", "2", "3", "4", "5", "6", "7", "8", "9", "0", "1", "2", "3">>
       /\ Len(codeCall.result.payload.secret) = 6
       /\ \A i \in 1 .. Len(codeCall.result.payload.secret) :
            IsDigit(codeCall.result.payload.secret[i])
       /\ DecimalValue(codeCall.result.payload.secret) =
            generateHOTP(codeCall.secret \o <<"9", "9", "9", "9">> \o
                <<"1", "2", "3", "4", "5", "6", "7", "8", "9", "0", "1", "2", "3">>,
                UnixSeconds(codeCall.dateNow) + 300)

\* C8 witness: a code was issued whose rendering needed a leading zero.
C8_Witness ==
    /\ codeCall.op = "getDoorLockInput"
    /\ codeCall.secret \in StaffTable
    /\ codeCall.result.outcome = "return"
    /\ codeCall.result.payload.secret[1] = "0"

\* C9: getDoorLockInput for a staff ID the lookup does not find throws
\* BadRequestError before any code is derived and returns no payload.
C9_UnknownStaffRejected ==
    ( /\ codeCall.op = "getDoorLockInput"
      /\ codeCall.secret \notin StaffTable )
    => /\ codeCall.result.outcome = "BadRequestError"
       /\ codeCall.result.message = "Request failed. Staff ID is invalid."
       /\ codeCall.result.derived = 0
       /\ codeCall.result.payload = NoPayload

\* C9 witness: getDoorLockInput was refused for an unknown staff ID.
C9_Witness ==
    /\ codeCall.op = "getDoorLockInput"
    /\ codeCall.secret \notin StaffTable
    /\ codeCall.result.outcome = "BadRequestError"

\* C10: generateTOTP(secret, w) at Unix second t equals
\* generateHOTP(secret, t + w); at every clock reading within the same second
\* it gives the same value; and it equals generateTOTP(secret, 0) at second
\* t + w.
C10_TotpIsHotpAtShiftedSecond ==
    codeCall.op = "generateTOTP"
    => /\ codeCall.result.value =
            generateHOTP(codeCall.secret,
                         UnixSeconds(codeCall.dateNow) + codeCall.number)
       /\ \A dateNow \in SameSecond(codeCall.dateNow) :
            generateTOTP(codeCall.secret, codeCall.number, dateNow)
                = codeCall.result.value
       /\ generateTOTP(codeCall.secret, 0,
                       codeCall.dateNow + codeCall.number * 1000)
            = codeCall.result.value

\* C10 witness: generateTOTP was called with a window, in the middle of a
\* second, and its value is neither that of the window-less counter nor that
\* of the next second.
C10_Witness ==
    /\ codeCall.op = "generateTOTP"
    /\ codeCall.number > 0
    /\ codeCall.dateNow % 1000 # 0
    /\ codeCall.result.value
         # generateHOTP(codeCall.secret, UnixSeconds(codeCall.dateNow))
    /\ codeCall.result.value
         # generateTOTP(codeCall.secret, codeCall.number, codeCall.dateNow + 1000)

-----------------------------------------------------------------------------
(* AdminService.generateHOTP on counters beyond 32 bits. The runtime's     *)
(* numbers are wider than the 32 bits its bitwise operators work on, so a  *)
(* counter is kept here in two parts: the number high * 2^16 + low.        *)

Number(high, low) == [high |-> high, low |-> low]

\* ToInt32, which & and >> apply to their left operand: the number modulo
\* 2^32, read as a signed 32-bit integer.
ToInt32(number) ==
    LET top == number.high % 65536
    IN  (IF top >= 32768 THEN top - 65536 ELSE top) * 65536 + number.low

\* The counters generateHOTP is called on: around 2^16, 2^24, 2^31 (Unix
\* seconds in 2038), 2^32 and 2^40.
CounterHighs ==
    {0, 1, 255, 256, 25000, 32467, 32767, 32768, 32769, 40000, 65535, 65536,
     65537, 16777216}
CounterLows == {0, 1, 255, 256, 300, 32767, 32768, 65235, 65535}
CounterSecrets == { <<"s", "1">> \o dummyRoomID \o dummyStaffNationalID }

\* generateHOTP(secret, number): the first round of the loop reads
\* number & 0xff and number >> 8, and every later round works on the
\* 32-bit result of that shift. The call record keeps the buffer that was
\* fed to the HMAC.
GenerateHOTPOfNumber ==
    \E secret \in CounterSecrets, high \in CounterHighs, low \in CounterLows :
        LET number == Number(high, low)
        IN  /\ codeCall' =
                CodeCallRecord("generateHOTPOfNumber", secret, number, 0,
                    CodeResult("return", "",
                               generateHOTP(secret, ToInt32(number)),
                               [buffer |-> CounterBuffer(ToInt32(number))],
                               0))
            /\ UNCHANGED nowMs

NextCounter ==
    GenerateHOTPOfNumber /\ UNCHANGED <<roomVars, gateVars, doorVars>>

-----------------------------------------------------------------------------
(* Properties of the counter buffer, checked under SpecCounter.            *)

\* The big-endian unsigned 64-bit representation of a non-negative number
\* below 2^47.
BigEndian64(number) ==
    << 0, 0,
       (number.high \div 16777216) % 256, (number.high \div 65536) % 256,
       (number.high \div 256) % 256, number.high % 256,
       number.low \div 256, number.low % 256 >>

BufferOf(number) == CounterBuffer(ToInt32(number))

\* C21: for every counter, below and beyond 2^31, the 8-byte buffer that
\* generateHOTP feeds to the HMAC is the big-endian unsigned 64-bit
\* representation of the counter, and distinct counters give distinct
\* buffers.
C21_BufferIsBigEndian64 ==
    codeCall.op = "generateHOTPOfNumber"
    => /\ codeCall.result.payload.buffer = BigEndian64(codeCall.number)
       /\ \A high \in CounterHighs, low \in CounterLows :
            Number(high, low) # codeCall.number
            => BufferOf(Number(high, low)) # codeCall.result.payload.buffer

\* Below 2^31 the buffer is the representation and no two counters below
\* 2^31 share a buffer.
C21_BelowTwoTo31 ==
    ( /\ codeCall.op = "generateHOTPOfNumber"
      /\ codeCall.number.high < 32768 )
    => /\ codeCall.result.payload.buffer = BigEndian64(codeCall.number)
       /\ \A high \in CounterHighs, low \in CounterLows :
            ( /\ high < 32768
              /\ Number(high, low) # codeCall.number )
            => BufferOf(Number(high, low)) # codeCall.result.payload.buffer

-----------------------------------------------------------------------------
(* The door-code payload: AdminService.encode, the decode and verify of    *)
(* the door-code service, and the routes GET /door/generate and            *)
(* GET /door/verify that hand a payload out and take one back.             *)

\* Mutant of encode: roomID and nationalID change places.
encode_FieldsSwapped(input) ==
    input.userID \o <<"|">> \o input.nationalID \o <<"|">> \o input.roomID
        \o <<"|">> \o input.secret

\* AdminService.encode
encode(input) ==
    input.userID \o <<"|">> \o input.roomID \o <<"|">> \o input.nationalID
        \o <<"|">> \o input.secret

\* String.prototype.split: the pieces of chars between the separators.
\* current is the piece being read, parts the pieces read before it.
RECURSIVE SplitFrom(_, _, _, _)
SplitFrom(chars, separator, current, parts) ==
    IF chars = <<>> THEN Append(parts, current)
    ELSE IF Head(chars) = separator
    THEN SplitFrom(Tail(chars), separator, <<>>, Append(parts, current))
    ELSE SplitFrom(Tail(chars), separator, Append(current, Head(chars)), parts)

split(str, separator) == SplitFrom(str, separator, <<>>, <<>>)

\* decode: split on '|' into exactly four parts, a decoding error otherwise.
decode(encoded) ==
    LET parts == split(encoded, "|")
    IN  IF Len(parts) # 4
        THEN [outcome |-> "BadRequestError", fields |-> NoPayload]
        ELSE [outcome |-> "return",
              fields |-> [userID |-> parts[1], roomID |-> parts[2],
                          nationalID |-> parts[3], secret |-> parts[4]]]

\* verify, with Date.now() as its second argument: decodes the payload,
\* derives the code of the present instant from the three identity fields
\* and compares it with the code presented.
verify(encoded, dateNow) ==
    LET decoded == decode(encoded)
    IN  IF decoded.outcome # "return"
        THEN [outcome |-> decoded.outcome, bool |-> FALSE]
        ELSE [outcome |-> "return",
              bool |-> decoded.fields.secret =
                  padStart(toString(generateTOTP(
                      decoded.fields.userID \o decoded.fields.roomID
                          \o decoded.fields.nationalID, 0, dateNow)), 6, "0")]

\* The fields encode is called with, and payloads that are no output of it.
FieldValues == { <<>>, <<"a">>, <<"|">>, <<"a", "|", "b">> }
MalformedPayloads == { <<"s", "1", "|", "9", "9", "9", "9">> }

\* The waits between two calls of the routes, in seconds.
WaitSeconds == {299, 300}

NoHeld == [encoded |-> <<>>, issuedAt |-> 0 - 1]

DoorCallRecord(op, input, encoded, issuedAt, dateNow, outcome, bool) ==
    [op |-> op, input |-> input, encoded |-> encoded, issuedAt |-> issuedAt,
     dateNow |-> dateNow, outcome |-> outcome, bool |-> bool]

NoDoorCall == DoorCallRecord("none", NoPayload, <<>>, 0 - 1, 0, "none", FALSE)

InitDoor ==
    /\ held = NoHeld
    /\ doorCall = NoDoorCall

\* encode is called on four fields.
Encode ==
    \E userID \in FieldValues, roomID \in FieldValues,
       nationalID \in FieldValues, secret \in FieldValues :
        LET input == [userID |-> userID, roomID |-> roomID,
                      nationalID |-> nationalID, secret |-> secret]
        IN  /\ doorCall' = DoorCallRecord("encode", input, encode(input),
                                          0 - 1, 0, "return", FALSE)
            /\ UNCHANGED <<held, nowMs>>

\* GET /door/generate: getDoorLockInput, then encode; the caller keeps the
\* payload. Codes are handed out before the wait.
Generate ==
    \E staffID \in StaffIDs :
      \E input \in { getDoorLockInput(staffID, nowMs) } :
        /\ nowMs <= MaxTicks * TickMs
        /\ IF input.outcome = "return"
           THEN /\ held' = [encoded |-> encode(input.payload),
                            issuedAt |-> nowMs]
                /\ doorCall' = DoorCallRecord("generate", input.payload,
                                    encode(input.payload), nowMs, nowMs,
                                    "return", FALSE)
           ELSE /\ doorCall' = DoorCallRecord("generate", NoPayload, <<>>,
                                    0 - 1, nowMs, input.outcome, FALSE)
                /\ UNCHANGED held
        /\ UNCHANGED nowMs

\* GET /door/verify: the payload held, or a malformed one, is presented.
Verify ==
    \E presented \in { held } \cup
            { [encoded |-> m, issuedAt |-> 0 - 1] : m \in MalformedPayloads } :
      \E result \in { verify(presented.encoded, nowMs) } :
        /\ presented # NoHeld
        /\ doorCall' = DoorCallRecord("verify", decode(presented.encoded).fields,
                            presented.encoded, presented.issuedAt, nowMs,
                            result.outcome, result.bool)
        /\ UNCHANGED <<held, nowMs>>

\* Time passes between two calls: a wait of whole seconds, once.
Wait ==
    \E seconds \in WaitSeconds :
        /\ nowMs <= MaxTicks * TickMs
        /\ nowMs' = nowMs + seconds * 1000
        /\ UNCHANGED <<held, doorCall>>

NextCodec ==
    Encode /\ UNCHANGED <<roomVars, codeCall, gateVars>>

NextDoor ==
    \/ Tick /\ UNCHANGED <<roomVars, gateVars, doorVars>>
    \/ Wait /\ UNCHANGED <<roomVars, codeCall, gateVars>>
    \/ Generate /\ UNCHANGED <<roomVars, codeCall, gateVars>>
    \/ Verify /\ UNCHANGED <<roomVars, codeCall, gateVars>>

-----------------------------------------------------------------------------
(* Properties of the door-code payload (SpecDoor, SpecCodec).              *)

\* The last call verified a payload that GET /door/generate handed out.
VerifiedIssued == doorCall.op = "verify" /\ doorCall.issuedAt >= 0

\* The secret the code of the payload was derived from.
PayloadSecret(fields) == fields.userID \o fields.roomID \o fields.nationalID

\* The rendering of the code the generator gives for the secret at a second.
CodeAtSecond(secret, second) ==
    padStart(toString(generateHOTP(secret, second)), 6, "0")

C12_ValidFor300Windows ==
    held # NoHeld
    => \A second \in UnixSeconds(held.issuedAt)
                        .. UnixSeconds(held.issuedAt) + 299 :
            decode(held.encoded).fields.secret
                = padStart(toString(generateTOTP(
                      PayloadSecret(decode(held.encoded).fields), 0,
                      second * 1000)), 6, "0")

HasPipe(str) == \E i \in 1 .. Len(str) : str[i] = "|"

\* C13: encode joins userID, roomID, nationalID and the code with '|' in
\* that order; decode gives the four fields back when none of them holds a
\* '|', and does not give them back when an identity field holds one.
C13_EncodeDecodeRoundTrip ==
    doorCall.op = "encode"
    => /\ doorCall.encoded =
            doorCall.input.userID \o <<"|">> \o doorCall.input.roomID
                \o <<"|">> \o doorCall.input.nationalID \o <<"|">>
                \o doorCall.input.secret
       /\ ( /\ ~HasPipe(doorCall.input.userID)
            /\ ~HasPipe(doorCall.input.roomID)
            /\ ~HasPipe(doorCall.input.nationalID)
            /\ ~HasPipe(doorCall.input.secret) )
            => decode(doorCall.encoded) =
                    [outcome |-> "return", fields |-> doorCall.input]
       /\ ( \/ HasPipe(doorCall.input.userID)
            \/ HasPipe(doorCall.input.roomID)
            \/ HasPipe(doorCall.input.nationalID) )
            => /\ decode(doorCall.encoded).fields # doorCall.input
               /\ Len(split(doorCall.encoded, "|")) > 4

\* C13 witness: encode was called with a '|' inside the roomID and with an
\* empty code.
C13_Witness ==
    /\ doorCall.op = "encode"
    /\ doorCall.input.roomID = <<"a", "|", "b">>
    /\ ~HasPipe(doorCall.input.userID)
    /\ doorCall.input.secret = <<>>
    /\ decode(doorCall.encoded).outcome = "BadRequestError"

-----------------------------------------------------------------------------
(* The actuation routes of app.ts. Express runs the handlers of a route in *)
(* the order they are listed; a handler either passes control to the next  *)
(* one or ends the request with an error, which the error handler answers. *)

Endpoints == {"lock", "unlock", "sound"}

\* Mutant of RouteHandlers: the route of /door/sound lists no isCheckedIn.
RouteHandlers_SoundUnchecked(endpoint) ==
    IF endpoint = "sound"
    THEN <<"isAuthenticated", "isInRoom", "publish">>
    ELSE <<"isAuthenticated", "isInRoom", "isCheckedIn", "publish">>

\* The handlers app.post lists for POST /door/{endpoint}, in order; the last
\* one is the route's own function, which publishes.
RouteHandlers(endpoint) ==
    CASE endpoint = "lock" ->
            <<"isAuthenticated", "isInRoom", "isCheckedIn", "publish">>
      [] endpoint = "unlock" ->
            <<"isAuthenticated", "isInRoom", "isCheckedIn", "publish">>
      [] endpoint = "sound" ->
            <<"isAuthenticated", "isInRoom", "isCheckedIn", "publish">>

\* Mutant of RouteMessage: the route of /door/unlock publishes 'lock'.
RouteMessage_UnlockLocks(endpoint) ==
    CASE endpoint = "lock" ->
            [topic |-> <<"d", "o", "o", "r">>, payload |-> "lock"]
      [] endpoint = "unlock" ->
            [topic |-> <<"d", "o", "o", "r">>, payload |-> "lock"]
      [] endpoint = "sound" ->
            [topic |-> <<"d", "o", "o", "r">>, payload |-> "sound"]

\* What the route's own function publishes: mqttClient.publish('door', ...).
\* A topic is a string, kept as the sequence of its characters.
RouteMessage(endpoint) ==
    CASE endpoint = "lock" ->
            [topic |-> <<"d", "o", "o", "r">>, payload |-> "lock"]
      [] endpoint = "unlock" ->
            [topic |-> <<"d", "o", "o", "r">>, payload |-> "unlock"]
      [] endpoint = "sound" ->
            [topic |-> <<"d", "o", "o", "r">>, payload |-> "sound"]

\* Mutant of unlockDoor: the command goes to the global topic.
unlockDoor_GlobalTopic(roomID) ==
    [topic |-> <<"d", "o", "o", "r">>, payload |-> "unlock"]

\* AdminService.unlockDoor: mqttClient.publish(`door/${roomID}`, 'unlock').
unlockDoor(roomID) ==
    [topic |-> <<"d", "o", "o", "r", "/">> \o roomID, payload |-> "unlock"]

\* The room ids unlockDoor is called with.
UnlockRoomIDs == { <<"7">>, <<"2", "0", "1">> }

\* A request: its route, the index of the handler that runs next, the guards
\* that ran with their verdicts, and how it stands.
NewRequest(endpoint) ==
    [endpoint |-> endpoint, next |-> 1, ran |-> <<>>, status |-> "pending",
     response |-> ""]

NextHandler(request) == RouteHandlers(request.endpoint)[request.next]

\* A guard middleware ran on the request with the verdict ok: next() when it
\* passes, an error that ends the request when it does not.
RunGuard(request, ok) ==
    [request EXCEPT
        !.ran = Append(@, [guard |-> NextHandler(request), ok |-> ok]),
        !.next = IF ok THEN @ + 1 ELSE @,
        !.status = IF ok THEN @ ELSE "error",
        !.response = IF ok THEN @ ELSE "error"]

\* Mutant of RunPublish: a publish the channel did not accept is answered
\* with an error.
RunPublish_ReportsFailure(request, accepted) ==
    [request EXCEPT !.next = @ + 1, !.status = "sent",
                    !.response = IF accepted THEN "eyy" ELSE "error"]

\* The route's own function ran: after the call of publish, whose outcome
\* (accepted) it does not read, it answers 'eyy'.
RunPublish(request, accepted) ==
    [request EXCEPT !.next = @ + 1, !.status = "sent", !.response = "eyy"]

InitGate ==
    /\ requests = <<>>
    /\ published = <<>>

\* A request to one of the three routes arrives.
Receive ==
    \E endpoint \in Endpoints :
        /\ Len(requests) < MaxRequests
        /\ requests' = Append(requests, NewRequest(endpoint))
        /\ UNCHANGED published

\* The next guard of a pending request runs and passes.
GuardPasses ==
    \E id \in DOMAIN requests :
        /\ requests[id].status = "pending"
        /\ NextHandler(requests[id]) # "publish"
        /\ requests' = [requests EXCEPT ![id] = RunGuard(@, TRUE)]
        /\ UNCHANGED published

\* The next guard of a pending request runs and rejects the request.
GuardRejects ==
    \E id \in DOMAIN requests :
        /\ requests[id].status = "pending"
        /\ NextHandler(requests[id]) # "publish"
        /\ requests' = [requests EXCEPT ![id] = RunGuard(@, FALSE)]
        /\ UNCHANGED published

\* The route's own function runs: it publishes and answers. The channel
\* takes the message or not (accepted); publish returns either way.
Dispatch ==
    \E id \in DOMAIN requests, accepted \in BOOLEAN :
        /\ requests[id].status = "pending"
        /\ NextHandler(requests[id]) = "publish"
        /\ published' = Append(published,
                [topic |-> RouteMessage(requests[id].endpoint).topic,
                 payload |-> RouteMessage(requests[id].endpoint).payload,
                 request |-> id, accepted |-> accepted])
        /\ requests' = [requests EXCEPT ![id] = RunPublish(@, accepted)]
        /\ UNCHANGED codeCall

\* AdminService.unlockDoor is called: it publishes and returns nothing. Its
\* messages carry request 0: they belong to no request of the three routes.
UnlockDoor ==
    \E roomID \in UnlockRoomIDs :
        /\ Cardinality({ i \in DOMAIN published : published[i].request = 0 })
                < MaxUnlocks
        /\ published' = Append(published,
                [topic |-> unlockDoor(roomID).topic,
                 payload |-> unlockDoor(roomID).payload,
                 request |-> 0])
        /\ codeCall' = CodeCallRecord("unlockDoor", roomID, 0, 0,
                            CodeResult("return", "", 0, NoPayload, 0))
        /\ UNCHANGED requests

NextGate ==
    \/ Receive /\ UNCHANGED <<roomVars, codeVars, doorVars>>
    \/ GuardPasses /\ UNCHANGED <<roomVars, codeVars, doorVars>>
    \/ GuardRejects /\ UNCHANGED <<roomVars, codeVars, doorVars>>
    \/ Dispatch /\ UNCHANGED <<roomVars, nowMs, doorVars>>
    \/ UnlockDoor /\ UNCHANGED <<roomVars, nowMs, doorVars>>

-----------------------------------------------------------------------------
(* Properties of the actuation routes, checked under SpecGate.             *)

GuardOrder == <<"isAuthenticated", "isInRoom", "isCheckedIn">>

MessagesOf(id) == { i \in DOMAIN published : published[i].request = id }

Rejected(request) == \E i \in DOMAIN request.ran : ~request.ran[i].ok

\* C1: a message is published for a request only after isAuthenticated,
\* isInRoom and isCheckedIn ran in that order and all passed; the guards of
\* every request run in that order; and once a guard rejects a request no
\* later guard runs and no message is published for it.
C1_PublishOnlyAfterGuards ==
    \A id \in DOMAIN requests :
        LET request == requests[id]
        IN  /\ Len(request.ran) <= Len(GuardOrder)
            /\ \A i \in DOMAIN request.ran :
                    /\ request.ran[i].guard = GuardOrder[i]
                    /\ ~request.ran[i].ok => i = Len(request.ran)
            /\ MessagesOf(id) # {}
                => /\ Len(request.ran) = Len(GuardOrder)
                   /\ \A i \in DOMAIN request.ran : request.ran[i].ok
            /\ Rejected(request)
                => /\ MessagesOf(id) = {}
                   /\ request.status = "error"

\* C1 witness: one request was rejected by isAuthenticated, so that no other
\* guard ran for it, and another passed the three guards and was published.
C1_Witness ==
    /\ \E id \in DOMAIN requests :
            /\ requests[id].ran = <<[guard |-> "isAuthenticated", ok |-> FALSE]>>
            /\ requests[id].status = "error"
    /\ \E id \in DOMAIN requests :
            /\ requests[id].status = "sent"
            /\ MessagesOf(id) # {}

\* Every guard of the route ran on the request and passed.
PassedAllGuards(request) ==
    /\ Len(request.ran) = Len(GuardOrder)
    /\ \A i \in DOMAIN request.ran : request.ran[i].ok

\* C14: a request that passed the three guards and was handled has exactly
\* one message, on the topic 'door', with the command its endpoint names as
\* payload, and the answer 'eyy'; until its handler runs it has no message.
C14_AuthorizedRequestPublishesCommand ==
    \A id \in DOMAIN requests :
        /\ requests[id].status = "sent"
            => /\ PassedAllGuards(requests[id])
               /\ Cardinality(MessagesOf(id)) = 1
               /\ \A i \in MessagesOf(id) :
                    /\ published[i].topic = <<"d", "o", "o", "r">>
                    /\ published[i].payload = requests[id].endpoint
               /\ requests[id].response = "eyy"
        /\ ( PassedAllGuards(requests[id]) /\ requests[id].status # "sent" )
            => /\ requests[id].status = "pending"
               /\ MessagesOf(id) = {}

\* C14 witness: requests to two different endpoints passed the guards and
\* each published its own command.
C14_Witness ==
    \E id \in DOMAIN requests, other \in DOMAIN requests :
        /\ requests[id].status = "sent"
        /\ requests[other].status = "sent"
        /\ requests[id].endpoint = "unlock"
        /\ requests[other].endpoint = "sound"
        /\ \E i \in MessagesOf(id) : published[i].payload = "unlock"
        /\ \E i \in MessagesOf(other) : published[i].payload = "sound"

Commands == {"lock", "unlock", "sound"}

OnGlobalTopic(message) == message.topic = <<"d", "o", "o", "r">>

\* The message is on a topic door/{roomID}.
OnRoomTopic(message) ==
    /\ Len(message.topic) >= 5
    /\ SubSeq(message.topic, 1, 5) = <<"d", "o", "o", "r", "/">>

\* C15: every message published is on 'door' with payload lock, unlock or
\* sound, or on a topic door/{roomID}; and a call unlockDoor(roomID) appends
\* exactly one message, 'unlock' on door/{roomID} for the roomID it was
\* given, and is the only source of messages that belong to no request.
C15_TopicsAndUnlockDoor ==
    [][ /\ \A i \in DOMAIN published' :
              \/ OnGlobalTopic(published'[i]) /\ published'[i].payload \in Commands
              \/ OnRoomTopic(published'[i])
        /\ ( /\ Len(published') > Len(published)
             /\ published'[Len(published')].request = 0 )
           => /\ codeCall'.op = "unlockDoor"
              /\ published' = Append(published,
                    [topic |-> <<"d", "o", "o", "r", "/">> \o codeCall'.secret,
                     payload |-> "unlock", request |-> 0])
        /\ ( codeCall'.op = "unlockDoor" /\ codeCall' # codeCall )
           => /\ Len(published') = Len(published) + 1
              /\ published'[Len(published')].request = 0 ]_vars

\* C15 witness: the channel carries a command of a route on 'door' and then
\* the unlock of room 201 on door/201.
C15_Witness ==
    /\ codeCall.op = "unlockDoor"
    /\ \E i \in DOMAIN published, j \in DOMAIN published :
            /\ i < j
            /\ OnGlobalTopic(published[i])
            /\ published[i].payload = "sound"
            /\ published[j].topic = <<"d", "o", "o", "r", "/", "2", "0", "1">>
            /\ published[j].payload = "unlock"

\* C20: a request has at most one message ever; the step that publishes it
\* is the step that answers 'eyy' (nothing is waited for); the answer of a
\* handled request is 'eyy' whether the channel accepted the message or not;
\* and a request that was answered changes no more and publishes no more.
C20_FireAndForget ==
    [][ \A id \in DOMAIN requests' :
          /\ Cardinality(MessagesOf(id)') <= 1
          /\ requests'[id].status = "sent"
                => /\ requests'[id].response = "eyy"
                   /\ Cardinality(MessagesOf(id)') = 1
          /\ id \in DOMAIN requests
                => /\ MessagesOf(id)' # MessagesOf(id)
                        => /\ requests[id].status = "pending"
                           /\ requests'[id].status = "sent"
                   /\ requests[id].status \in {"sent", "error"}
                        => /\ requests'[id] = requests[id]
                           /\ MessagesOf(id)' = MessagesOf(id) ]_vars

\* C20 witness: two requests were answered 'eyy'; the channel accepted the
\* message of one and not the message of the other.
C20_Witness ==
    \E id \in DOMAIN requests, other \in DOMAIN requests :
        /\ requests[id].response = "eyy"
        /\ requests[other].response = "eyy"
        /\ \E i \in MessagesOf(id) : published[i].accepted
        /\ \E i \in MessagesOf(other) : ~published[i].accepted

-----------------------------------------------------------------------------

(* The specifications. Each starts every subsystem in its state after      *)
(* construction and then runs the operations of one of them; the clock is  *)
(* read by AdminService alone, so only SpecCode starts it at more than one *)
(* reading.                                                                *)

Init == InitRoom /\ InitCode /\ InitGate /\ InitDoor

InitClockAtEpoch == InitRoom /\ InitCode /\ InitGate /\ InitDoor /\ nowMs = 0

SpecRoom == InitClockAtEpoch /\ [][NextRoom]_vars
SpecShare == InitClockAtEpoch /\ [][NextShare]_vars
SpecCode == Init /\ [][NextCode]_vars
SpecGate == InitClockAtEpoch /\ [][NextGate]_vars
SpecCodec == InitClockAtEpoch /\ [][NextCodec]_vars
SpecCounter == InitClockAtEpoch /\ [][NextCounter]_vars
SpecDoor == InitClockAtEpoch /\ [][NextDoor]_vars

====
